---- MODULE Spec2Model ----
(***************************************************************************)
(* A model of the story scraper (literotica_extract.py) and of the PDF     *)
(* paragraph normaliser (pdf_to_epub.py).                                  *)
(*                                                                         *)
(* Three specifications share the module:                                  *)
(*   Spec      main() of literotica_extract.py: URL validation, the page   *)
(*             crawl loop and the export of the accumulated story;         *)
(*   SpecSan   sanitize_filename applied once and then again;              *)
(*   SpecHyph  clean_hyphenation applied once and then again.              *)
(*                                                                         *)
(* Strings are sequences of characters; a character is a one-element name  *)
(* of its class ("a" an ASCII letter, "eacute" a non-ASCII letter, ...).   *)
(***************************************************************************)
EXTENDS Integers, Sequences, FiniteSets, TLC

VARIABLES
    \* ---- main() of literotica_extract.py
    pc,             \* position of main()
    nextLink,       \* the site: page -> page its "Next Page" link names (0: none)
    prompts,        \* URLs asked of the user so far by get_story_url
    lastCall,       \* the last call of is_valid_literotica_url: input and outcome
    format_choice,  \* get_output_format's answer, "0" before it is asked
    current_url,    \* the loop's current_url (0: None)
    page_num,       \* the loop's page_num
    full_story,     \* the accumulated story text
    log,            \* network and clock events, in order: fetches and sleeps
    titleDoc,       \* the fetch (index into log) whose document gave the title
    pageDocs,       \* per accumulated body, the fetch whose document gave it
    fetchFailed,    \* a get_page call has raised
    dirCreated,     \* get_output_directory has created the directory
    attempted,      \* the save functions called, in order
    saveErrors,     \* the formats whose save function logged a failure
    artifacts,      \* the formats whose file was written
    \* ---- sanitize_filename
    name,           \* the input string
    sanitized,      \* sanitize_filename(name)
    resanitized,    \* sanitize_filename(sanitized)
    sanStage,       \* 0: input chosen, 1: sanitized once, 2: sanitized twice
    \* ---- clean_hyphenation
    paragraphs,     \* the input paragraphs
    cleaned,        \* clean_hyphenation(paragraphs)
    recleaned,      \* clean_hyphenation(cleaned)
    hyphStage       \* 0: input chosen, 1: cleaned once, 2: cleaned twice

mainVars == <<pc, nextLink, prompts, lastCall, format_choice, current_url,
              page_num, full_story, log, titleDoc, pageDocs, fetchFailed,
              dirCreated, attempted, saveErrors, artifacts>>
sanVars == <<name, sanitized, resanitized, sanStage>>
hyphVars == <<paragraphs, cleaned, recleaned, hyphStage>>
vars == <<mainVars, sanVars, hyphVars>>

(***************************************************************************)
(* Bounds of the model.                                                    *)
(***************************************************************************)
MaxNameLen == 4
MaxChars == 7
MaxPages == 3
MaxFetches == 5
MaxPrompts == 2

(***************************************************************************)
(* Strings.                                                                *)
(***************************************************************************)
\* The strings of length n over an alphabet.
StringsOfLen(alphabet, n) == [1..n -> alphabet]

\* str.isspace() on the characters of the model.
IsSpace(c) == c \in {" ", "tab", "nl"}

\* str.rstrip(): the string without its trailing whitespace.
RECURSIVE rstrip(_)
rstrip(s) ==
    IF s = <<>> THEN s
    ELSE IF IsSpace(s[Len(s)]) THEN rstrip(SubSeq(s, 1, Len(s) - 1))
    ELSE s

(***************************************************************************)
(* sanitize_filename.                                                      *)
(***************************************************************************)
\* The characters a name is drawn from: an ASCII letter, an ASCII digit, a
\* non-ASCII letter (U+00E9), a non-ASCII digit (U+0663), the space, a tab,
\* the underscore, the hyphen and a path separator.
NameChars == {"a", "7", "eacute", "arabic3", " ", "tab", "_", "-", "/"}

AsciiAlnum == {"a", "7"}

\* str.isalnum(): true of every Unicode letter and digit.
isalnum(c) == c \in {"a", "7", "eacute", "arabic3"}

\* The generator expression of sanitize_filename: the characters kept.
KeepChar(c) == isalnum(c) \/ c \in {" ", "_", "-"}

\* A slip of sanitize_filename: the trailing whitespace is stripped before the
\* unsafe characters are dropped instead of after.
sanitize_filename_strip_first(s) == SelectSeq(rstrip(s), KeepChar)

\* A slip of sanitize_filename: no rstrip().
sanitize_filename_no_strip(s) == SelectSeq(s, KeepChar)

sanitize_filename(s) == rstrip(SelectSeq(s, KeepChar))

SanInit ==
    /\ \E n \in 0..MaxNameLen : name \in StringsOfLen(NameChars, n)
    /\ sanitized = <<>>
    /\ resanitized = <<>>
    /\ sanStage = 0

SanitizeOnce ==
    /\ sanStage = 0
    /\ sanitized' = sanitize_filename(name)
    /\ sanStage' = 1
    /\ UNCHANGED <<name, resanitized>>

SanitizeAgain ==
    /\ sanStage = 1
    /\ resanitized' = sanitize_filename(sanitized)
    /\ sanStage' = 2
    /\ UNCHANGED <<name, sanitized>>

(***************************************************************************)
(* clean_hyphenation: re.sub(r'(\w+)-\s+(\w+)', r'\1\2', para) on every    *)
(* paragraph.                                                              *)
(***************************************************************************)
\* The characters a paragraph is drawn from: a word character, the hyphen,
\* a whitespace character and a full stop (neither \w nor \s nor the hyphen).
ParaChars == {"a", "-", " ", "."}

\* \w of the pattern.
IsWord(c) == c \in {"a", "7", "_", "eacute", "arabic3"}

\* The end of the longest run of \w characters that starts at position i of
\* s; i - 1 when s[i] is not one. A greedy \w+ or \s+ of this pattern can
\* only match the whole run: the character the pattern wants next is never of
\* the run's class.
RECURSIVE WordRunEnd(_, _)
WordRunEnd(s, i) ==
    IF i <= Len(s) /\ IsWord(s[i]) THEN WordRunEnd(s, i + 1) ELSE i - 1

\* The same for \s.
RECURSIVE SpaceRunEnd(_, _)
SpaceRunEnd(s, i) ==
    IF i <= Len(s) /\ IsSpace(s[i]) THEN SpaceRunEnd(s, i + 1) ELSE i - 1

\* re.match of (\w+)-\s{minWs,}(\w+) at position i of s: whether it matches, the
\* two groups and the position of the match's last character.
MatchAt(s, i, minWs) ==
    LET j == WordRunEnd(s, i)
        hyphen == j >= i /\ j + 1 <= Len(s) /\ s[j + 1] = "-"
        k == IF hyphen THEN SpaceRunEnd(s, j + 2) ELSE 0
        m == IF hyphen THEN WordRunEnd(s, k + 1) ELSE 0
        ok == hyphen /\ k - (j + 1) >= minWs /\ m >= k + 1
    IN  [ok |-> ok,
         group1 |-> IF ok THEN SubSeq(s, i, j) ELSE <<>>,
         group2 |-> IF ok THEN SubSeq(s, k + 1, m) ELSE <<>>,
         gap |-> IF ok THEN j + 1 ELSE 0,
         last |-> IF ok THEN m ELSE 0]

\* re.sub from position i on: leftmost matches, none overlapping; a match is
\* replaced by \1\2 and the scan goes on after it, any other character is
\* copied.
RECURSIVE SubFrom(_, _, _)
SubFrom(s, i, minWs) ==
    IF i > Len(s) THEN <<>>
    ELSE LET mt == MatchAt(s, i, minWs)
         IN  IF mt.ok
             THEN mt.group1 \o mt.group2 \o SubFrom(s, mt.last + 1, minWs)
             ELSE <<s[i]>> \o SubFrom(s, i + 1, minWs)

\* re.sub(r'(\w+)-\s+(\w+)', r'\1\2', para)
FixPara(para) == SubFrom(para, 1, 1)

\* A slip of clean_hyphenation: the pattern (\w+)-\s*(\w+), which also joins
\* the two sides of a hyphen that no whitespace follows.
clean_hyphenation_optional_space(ps) ==
    [i \in 1..Len(ps) |-> SubFrom(ps[i], 1, 0)]

clean_hyphenation(ps) == [i \in 1..Len(ps) |-> FixPara(ps[i])]

\* The paragraphs of a text whose "para" characters are the paragraph breaks
\* (the text blocks extract_text_from_pdf reports, in reading order).
RECURSIVE SplitParas(_, _, _)
SplitParas(text, i, cur) ==
    IF i > Len(text) THEN <<cur>>
    ELSE IF text[i] = "para" THEN <<cur>> \o SplitParas(text, i + 1, <<>>)
    ELSE SplitParas(text, i + 1, Append(cur, text[i]))

HyphInit ==
    /\ \E n \in 0..MaxChars :
          \E text \in StringsOfLen(ParaChars \cup {"para"}, n) :
              paragraphs = SplitParas(text, 1, <<>>)
    /\ cleaned = <<>>
    /\ recleaned = <<>>
    /\ hyphStage = 0

CleanOnce ==
    /\ hyphStage = 0
    /\ cleaned' = clean_hyphenation(paragraphs)
    /\ hyphStage' = 1
    /\ UNCHANGED <<paragraphs, recleaned>>

CleanAgain ==
    /\ hyphStage = 1
    /\ recleaned' = clean_hyphenation(cleaned)
    /\ hyphStage' = 2
    /\ UNCHANGED <<paragraphs, cleaned>>

(***************************************************************************)
(* literotica_extract.py: the site, the documents and the page extractors. *)
(***************************************************************************)
\* The pages of the site are numbered; page 1 is the page the validated
\* story URL names. 0 stands for None.
Pages == 1..MaxPages

\* The text is a sequence of tokens: <<p, i>> is the i-th paragraph of page
\* p, Sep is the blank-line separator "\n\n".
Sep == <<0, 0>>

\* story_div.find_all('p') of page p. The pages differ: one paragraph, two
\* paragraphs, and a page without the story div (or without paragraphs).
PageParagraphs(p) ==
    CASE p % 3 = 1 -> <<<<p, 1>>>>
      [] p % 3 = 2 -> <<<<p, 1>>, <<p, 2>>>>
      [] OTHER -> <<>>

\* sep.join(parts) for a sequence of strings.
RECURSIVE Join(_, _)
Join(parts, sep) ==
    IF parts = <<>> THEN <<>>
    ELSE IF Len(parts) = 1 THEN parts[1]
    ELSE parts[1] \o sep \o Join(Tail(parts), sep)

\* extract_story_text: "" without the story div, else the paragraphs joined
\* by "\n\n".
extract_story_text(p) ==
    Join([i \in 1..Len(PageParagraphs(p)) |-> <<PageParagraphs(p)[i]>>], <<Sep>>)

\* find_next_page: the page the "Next Page" link names, None without the
\* pagination div or the link.
find_next_page(p) == nextLink[p]

\* An entry of the log: a get_page call (and whether it returned) or the
\* time.sleep(1) of the loop.
FetchEvent(p, ok) == [op |-> "fetch", url |-> p, ok |-> ok]
SleepEvent == [op |-> "sleep", url |-> 0, ok |-> TRUE]

Fetches == Len(SelectSeq(log, LAMBDA e : e.op = "fetch"))

(***************************************************************************)
(* is_valid_literotica_url and get_story_url.                              *)
(***************************************************************************)
StoryPrefix == "https://www.literotica.com/s/"

\* The URLs tried: the empty string, the bare prefix, two story URLs (one
\* with a query after the slug), one with the wrong scheme and one with a
\* leading blank. A URL is its prefix and the characters after it.
UrlInputs ==
    { <<>>,
      <<StoryPrefix>>,
      <<StoryPrefix, "a">>,
      <<StoryPrefix, "7", "?">>,
      <<StoryPrefix, "/">>,
      <<"http://www.literotica.com/s/", "a">>,
      <<" ", StoryPrefix, "a">> }

\* re.match(pattern, url): the prefix at the start, then at least one of
\* [a-zA-Z0-9-].
re_match(url) ==
    /\ Len(url) >= 2
    /\ url[1] = StoryPrefix
    /\ url[2] \in {"a", "7", "-"}

\* What requests.head does: a status code, or 0 for a raised exception
\* (connection error, timeout).
TransportError == 0
ProbeOutcomes == {200, 204, 301, 404, 500, TransportError}

NoCall == [called |-> FALSE, url |-> <<>>, probe |-> TransportError,
           result |-> FALSE, heads |-> 0, raised |-> FALSE]

\* A slip of is_valid_literotica_url: the HEAD request outside any try.
is_valid_literotica_url_no_try(url, probe) ==
    IF ~re_match(url)
    THEN [called |-> TRUE, url |-> url, probe |-> probe,
          result |-> FALSE, heads |-> 0, raised |-> FALSE]
    ELSE [called |-> TRUE, url |-> url, probe |-> probe,
          result |-> probe = 200, heads |-> 1,
          raised |-> probe = TransportError]

\* is_valid_literotica_url(url) when the HEAD request, if issued, ends in
\* probe: the value returned, the HEAD requests issued and whether the call
\* raised.
is_valid_literotica_url(url, probe) ==
    IF ~re_match(url)
    THEN [called |-> TRUE, url |-> url, probe |-> probe,
          result |-> FALSE, heads |-> 0, raised |-> FALSE]
    ELSE IF probe = TransportError
    THEN [called |-> TRUE, url |-> url, probe |-> probe,
          result |-> FALSE, heads |-> 1, raised |-> FALSE]
    ELSE [called |-> TRUE, url |-> url, probe |-> probe,
          result |-> probe = 200, heads |-> 1, raised |-> FALSE]

(***************************************************************************)
(* main().                                                                 *)
(***************************************************************************)
\* A slip of main: a failed fetch inside the loop is swallowed there and the
\* turn of the loop is taken again.
OnExceptionRetryLoop(at) == IF at = "loop" THEN "loop" ELSE "handled"

\* Where control goes when an exception is raised at position `at` of main:
\* the whole body is inside try ... except Exception.
OnException(at) == "handled"

\* A slip of save_as_pdf: no try/except around the rendering.
SaveCatchesNotPdf(fmt) == fmt # "pdf"

\* Whether save_as_<fmt> catches the exceptions of its own body.
SaveCatches(fmt) == TRUE

\* The save functions main calls for a format choice, in call order.
Requested(choice) ==
    CASE choice = "1" -> <<"txt">>
      [] choice = "2" -> <<"pdf">>
      [] choice = "3" -> <<"epub">>
      [] choice = "4" -> <<"txt", "pdf", "epub">>
      [] OTHER -> <<>>

MainInit ==
    /\ pc = "url"
    /\ nextLink \in [Pages -> 0..MaxPages]
    /\ prompts = 0
    /\ lastCall = NoCall
    /\ format_choice = "0"
    /\ current_url = 0
    /\ page_num = 0
    /\ full_story = <<>>
    /\ log = <<>>
    /\ titleDoc = 0
    /\ pageDocs = <<>>
    /\ fetchFailed = FALSE
    /\ dirCreated = FALSE
    /\ attempted = <<>>
    /\ saveErrors = {}
    /\ artifacts = {}

\* get_story_url: one turn of its loop. The URL tested is sys.argv[1] (or "")
\* the first time and the user's answer afterwards.
GetStoryUrl ==
    /\ pc = "url"
    /\ \E url \in UrlInputs, probe \in ProbeOutcomes :
          LET call == is_valid_literotica_url(url, probe)
          IN  /\ call.result \/ call.raised \/ prompts < MaxPrompts
              /\ lastCall' = call
              /\ pc' = IF call.raised THEN OnException("url")
                       ELSE IF call.result THEN "format"
                       ELSE "url"
              /\ prompts' = IF call.raised \/ call.result THEN prompts
                            ELSE prompts + 1
    /\ UNCHANGED <<nextLink, format_choice, current_url, page_num, full_story,
                   log, titleDoc, pageDocs, fetchFailed, dirCreated, attempted,
                   saveErrors, artifacts>>

\* get_output_format: the loop ends with one of the four choices.
GetOutputFormat ==
    /\ pc = "format"
    /\ format_choice' \in {"1", "2", "3", "4"}
    /\ pc' = "title"
    /\ UNCHANGED <<nextLink, prompts, lastCall, current_url, page_num,
                   full_story, log, titleDoc, pageDocs, fetchFailed, dirCreated,
                   attempted, saveErrors, artifacts>>

\* Lines 307-313: the first page is fetched for its title, and the loop's
\* variables are set.
FetchTitle ==
    /\ pc = "title"
    /\ log' = Append(log, FetchEvent(1, TRUE))
    /\ titleDoc' = Len(log')
    /\ full_story' = <<>>
    /\ current_url' = 1
    /\ page_num' = 1
    /\ pc' = "loop"
    /\ UNCHANGED <<nextLink, prompts, lastCall, format_choice, pageDocs,
                   fetchFailed, dirCreated, attempted, saveErrors, artifacts>>

\* Line 307 when get_page raises.
FetchTitleFails ==
    /\ pc = "title"
    /\ log' = Append(log, FetchEvent(1, FALSE))
    /\ fetchFailed' = TRUE
    /\ pc' = OnException("title")
    /\ UNCHANGED <<nextLink, prompts, lastCall, format_choice, current_url,
                   page_num, full_story, titleDoc, pageDocs, dirCreated,
                   attempted, saveErrors, artifacts>>

\* Lines 316-322: one turn of the loop up to the sleep. The page is fetched,
\* its text and a separator are appended, and the next link is followed.
LoopFetch ==
    /\ pc = "loop"
    /\ current_url # 0
    /\ Fetches < MaxFetches
    /\ log' = Append(log, FetchEvent(current_url, TRUE))
    /\ pageDocs' = Append(pageDocs, Len(log'))
    /\ full_story' = full_story \o extract_story_text(current_url) \o <<Sep>>
    /\ current_url' = find_next_page(current_url)
    /\ page_num' = page_num + 1
    /\ pc' = "sleep"
    /\ UNCHANGED <<nextLink, prompts, lastCall, format_choice, titleDoc,
                   fetchFailed, dirCreated, attempted, saveErrors, artifacts>>

\* Line 318 when get_page raises.
LoopFetchFails ==
    /\ pc = "loop"
    /\ current_url # 0
    /\ Fetches < MaxFetches
    /\ log' = Append(log, FetchEvent(current_url, FALSE))
    /\ fetchFailed' = TRUE
    /\ pc' = OnException("loop")
    /\ UNCHANGED <<nextLink, prompts, lastCall, format_choice, current_url,
                   page_num, full_story, titleDoc, pageDocs, dirCreated,
                   attempted, saveErrors, artifacts>>

\* Line 323: time.sleep(1), the last statement of every turn of the loop.
Sleep ==
    /\ pc = "sleep"
    /\ log' = Append(log, SleepEvent)
    /\ pc' = "loop"
    /\ UNCHANGED <<nextLink, prompts, lastCall, format_choice, current_url,
                   page_num, full_story, titleDoc, pageDocs, fetchFailed,
                   dirCreated, attempted, saveErrors, artifacts>>

\* Lines 316 and 325: the loop ends on current_url = None and
\* get_output_directory creates the directory.
GetOutputDirectory ==
    /\ pc = "loop"
    /\ current_url = 0
    /\ dirCreated' = TRUE
    /\ pc' = "save"
    /\ UNCHANGED <<nextLink, prompts, lastCall, format_choice, current_url,
                   page_num, full_story, log, titleDoc, pageDocs, fetchFailed,
                   attempted, saveErrors, artifacts>>

\* Lines 333-342: the next save function of the choice is called; its
\* renderer writes the file or raises.
Save ==
    /\ pc = "save"
    /\ Len(attempted) < Len(Requested(format_choice))
    /\ LET fmt == Requested(format_choice)[Len(attempted) + 1]
       IN  \E ok \in BOOLEAN :
              /\ attempted' = Append(attempted, fmt)
              /\ artifacts' = IF ok THEN artifacts \cup {fmt} ELSE artifacts
              /\ saveErrors' = IF ok THEN saveErrors ELSE saveErrors \cup {fmt}
              /\ pc' = IF ok \/ SaveCatches(fmt) THEN "save"
                       ELSE OnException("save")
    /\ UNCHANGED <<nextLink, prompts, lastCall, format_choice, current_url,
                   page_num, full_story, log, titleDoc, pageDocs, fetchFailed,
                   dirCreated>>

\* Line 344: every requested save function has returned.
Finish ==
    /\ pc = "save"
    /\ Len(attempted) = Len(Requested(format_choice))
    /\ pc' = "done"
    /\ UNCHANGED <<nextLink, prompts, lastCall, format_choice, current_url,
                   page_num, full_story, log, titleDoc, pageDocs, fetchFailed,
                   dirCreated, attempted, saveErrors, artifacts>>

(***************************************************************************)
(* The specifications.                                                     *)
(***************************************************************************)
MainIdle ==
    /\ pc = "idle"
    /\ nextLink = <<>>
    /\ prompts = 0
    /\ lastCall = NoCall
    /\ format_choice = "0"
    /\ current_url = 0
    /\ page_num = 0
    /\ full_story = <<>>
    /\ log = <<>>
    /\ titleDoc = 0
    /\ pageDocs = <<>>
    /\ fetchFailed = FALSE
    /\ dirCreated = FALSE
    /\ attempted = <<>>
    /\ saveErrors = {}
    /\ artifacts = {}

SanIdle ==
    /\ name = <<>>
    /\ sanitized = <<>>
    /\ resanitized = <<>>
    /\ sanStage = 0

HyphIdle ==
    /\ paragraphs = <<>>
    /\ cleaned = <<>>
    /\ recleaned = <<>>
    /\ hyphStage = 0

Init == MainInit /\ SanIdle /\ HyphIdle

Next ==
    \/ GetStoryUrl /\ UNCHANGED <<sanVars, hyphVars>>
    \/ GetOutputFormat /\ UNCHANGED <<sanVars, hyphVars>>
    \/ FetchTitle /\ UNCHANGED <<sanVars, hyphVars>>
    \/ FetchTitleFails /\ UNCHANGED <<sanVars, hyphVars>>
    \/ LoopFetch /\ UNCHANGED <<sanVars, hyphVars>>
    \/ LoopFetchFails /\ UNCHANGED <<sanVars, hyphVars>>
    \/ Sleep /\ UNCHANGED <<sanVars, hyphVars>>
    \/ GetOutputDirectory /\ UNCHANGED <<sanVars, hyphVars>>
    \/ Save /\ UNCHANGED <<sanVars, hyphVars>>
    \/ Finish /\ UNCHANGED <<sanVars, hyphVars>>

Spec == Init /\ [][Next]_vars

InitSan == SanInit /\ MainIdle /\ HyphIdle

NextSan ==
    \/ SanitizeOnce /\ UNCHANGED <<mainVars, hyphVars>>
    \/ SanitizeAgain /\ UNCHANGED <<mainVars, hyphVars>>

SpecSan == InitSan /\ [][NextSan]_vars

InitHyph == HyphInit /\ MainIdle /\ SanIdle

NextHyph ==
    \/ CleanOnce /\ UNCHANGED <<mainVars, sanVars>>
    \/ CleanAgain /\ UNCHANGED <<mainVars, sanVars>>

SpecHyph == InitHyph /\ [][NextHyph]_vars

(***************************************************************************)
(* The shapes of site the claims speak of.                                 *)
(***************************************************************************)
\* Pages 1..n each link to the next and page n has no next link.
FiniteChain(n) ==
    /\ \A i \in 1..(n - 1) : nextLink[i] = i + 1
    /\ nextLink[n] = 0

\* Pages 1..n each link to the next and page n links to itself.
SelfLoopChain(n) ==
    /\ \A i \in 1..(n - 1) : nextLink[i] = i + 1
    /\ nextLink[n] = n

LoopLeft == pc \in {"save", "done"}

FetchedUrls ==
    LET fs == SelectSeq(log, LAMBDA e : e.op = "fetch")
    IN  [i \in 1..Len(fs) |-> fs[i].url]

\* The bodies of pages 1..n joined by the separator.
JoinedBodies(n) == Join([i \in 1..n |-> extract_story_text(i)], <<Sep>>)

(***************************************************************************)
(* The claims.                                                             *)
(***************************************************************************)

\* C1 (as claimed): on a chain whose page N links to itself the crawl stops at
\* page N: never more than N page bodies are accumulated, and once the loop is
\* left exactly N are.
C1_CycleTermination ==
    \A n \in Pages :
        SelfLoopChain(n) =>
            /\ Len(pageDocs) <= n
            /\ LoopLeft => Len(pageDocs) = n

\* C2 (as claimed): after the crawl of a finite chain of N pages, the text
\* handed to the save functions is the N page bodies joined by "\n\n", with no
\* separator before the first or after the last.
C2_FullTextIsJoin ==
    \A n \in Pages :
        (FiniteChain(n) /\ attempted # <<>>) => full_story = JoinedBodies(n)

\* C3: once a get_page call has failed, the run is in the top-level handler,
\* the failed fetch is the last network or clock event, no directory was
\* created, no save function was called and no file was written.
C3_FetchFailureTerminal ==
    fetchFailed =>
        /\ pc = "handled"
        /\ log # <<>>
        /\ log[Len(log)].op = "fetch"
        /\ ~log[Len(log)].ok
        /\ \A i \in 1..(Len(log) - 1) : log[i].ok
        /\ ~dirCreated
        /\ attempted = <<>>
        /\ artifacts = {}

\* C3's case: the fetch of a later page fails with pages already accumulated.
C3_Witness ==
    /\ fetchFailed
    /\ Len(pageDocs) >= 2
    /\ full_story # <<>>
    /\ pc = "handled"

\* C4: with all three formats requested, the save functions are called in
\* the order txt, pdf, epub, each at most once; a failing renderer never sends
\* the run to the handler; and at the end all three were called and exactly
\* the formats whose renderer did not fail have their file.
C4_ExportIsolation ==
    format_choice = "4" =>
        /\ \E k \in 0..3 : attempted = SubSeq(<<"txt", "pdf", "epub">>, 1, k)
        /\ attempted # <<>> => pc \in {"save", "done"}
        /\ saveErrors \cap artifacts = {}
        /\ saveErrors \cup artifacts = {attempted[i] : i \in 1..Len(attempted)}
        /\ pc = "done" => attempted = <<"txt", "pdf", "epub">>

\* C4's case: the fixed-layout renderer alone failed, and the other two files
\* were written.
C4_Witness ==
    /\ format_choice = "4"
    /\ pc = "done"
    /\ saveErrors = {"pdf"}
    /\ artifacts = {"txt", "epub"}

C6_SanitizeIdempotent == sanStage = 2 => resanitized = sanitized

\* C6's case: a name that the first pass changes, by dropping characters and
\* by stripping the whitespace they leave at the end.
C6_Witness ==
    /\ sanStage = 2
    /\ sanitized # <<>>
    /\ Len(SelectSeq(name, KeepChar)) < Len(name)
    /\ Len(sanitized) < Len(SelectSeq(name, KeepChar))

\* C7 (as claimed): the sanitized name holds only characters of [A-Za-z0-9 _-]
\* and does not end in whitespace.
C7_AsciiOnly ==
    sanStage >= 1 =>
        /\ \A i \in 1..Len(sanitized) :
              sanitized[i] \in AsciiAlnum \cup {" ", "_", "-"}
        /\ sanitized = <<>> \/ ~IsSpace(sanitized[Len(sanitized)])

\* C7 (amended): the sanitized name holds only letters and digits of any
\* script (str.isalnum), spaces, underscores and hyphens, in the order of the
\* input, and does not end in whitespace.
C7_AlnumOnly ==
    sanStage >= 1 =>
        /\ \A i \in 1..Len(sanitized) :
              \/ sanitized[i] \in {"a", "7", "eacute", "arabic3"}
              \/ sanitized[i] \in {" ", "_", "-"}
        /\ sanitized = <<>> \/ sanitized[Len(sanitized)] \notin {" ", "tab", "nl"}

\* C7's case: a name with a non-ASCII letter, a tab and a path separator.
C7_Witness ==
    /\ sanStage >= 1
    /\ name = <<"eacute", "tab", "/", " ">>
    /\ sanitized = <<"eacute">>

\* A paragraph holds a chain: fragment, hyphen, whitespace, fragment, hyphen,
\* whitespace, fragment, the middle fragment shared by two groups.
ChainAt(s, i) ==
    LET j == WordRunEnd(s, i)
        k == SpaceRunEnd(s, j + 2)
        m == WordRunEnd(s, k + 1)
        k2 == SpaceRunEnd(s, m + 2)
    IN  /\ j >= i
        /\ j + 1 <= Len(s) /\ s[j + 1] = "-"
        /\ k >= j + 2
        /\ m >= k + 1
        /\ m + 1 <= Len(s) /\ s[m + 1] = "-"
        /\ k2 >= m + 2
        /\ k2 + 1 <= Len(s) /\ IsWord(s[k2 + 1])

HasChain(s) == \E i \in 1..Len(s) : ChainAt(s, i)

\* C8 (as claimed): repairing repaired paragraphs changes nothing, whatever
\* the paragraphs.
C8_HyphenationIdempotent == hyphStage = 2 => recleaned = cleaned

\* C8 (amended): repairing repaired paragraphs changes nothing when no
\* paragraph holds a chain of two groups sharing a fragment; the repair keeps
\* the number and order of the paragraphs.
C8_IdempotentWithoutChain ==
    hyphStage = 2 =>
        /\ Len(cleaned) = Len(paragraphs)
        /\ (\A i \in 1..Len(paragraphs) : ~HasChain(paragraphs[i]))
              => recleaned = cleaned

\* C8's case: two paragraphs, the first repaired by the first pass.
C8_Witness ==
    /\ hyphStage = 2
    /\ paragraphs = <<<<"a", "-", " ", "a">>, <<"a", "-">>>>
    /\ cleaned = <<<<"a", "a">>, <<"a", "-">>>>
    /\ recleaned = cleaned

\* C9 (as claimed): no two fetches follow each other without a sleep in
\* between, and when the loop is left the last event is the fetch of the last
\* page, not a sleep.
C9_RateLimiting ==
    /\ \A i \in 1..(Len(log) - 1) :
          ~(log[i].op = "fetch" /\ log[i + 1].op = "fetch")
    /\ LoopLeft => log[Len(log)].op = "fetch"

\* C10 (as claimed): after the crawl of a finite chain of N pages, the pages
\* fetched are 1..N, each once and in order, and the document the title came
\* from is the document the first body came from.
C10_OneFetchPerPage ==
    \A n \in Pages :
        (FiniteChain(n) /\ LoopLeft) =>
            /\ FetchedUrls = [i \in 1..n |-> i]
            /\ titleDoc = pageDocs[1]

====
